---------------------------- MODULE Spec2Model ----------------------------
(***************************************************************************)
(* Vehicle-Alert-Data-Analytics (app.py): a Flask dashboard whose every    *)
(* route calls load_data() and then normalizes, aggregates and renders.    *)
(*                                                                         *)
(* The state is the two CSV files on disk and what the last request did:   *)
(* the frame load_data returned to it, the handler's local frames when it  *)
(* ended, the response, the exception (if any) and the order of its steps. *)
(* One action per route; each models the whole handler, statement by       *)
(* statement, over a heap of frames so that df1 = df.copy() and            *)
(* df[col] = ... act on the objects they act on in Python.                 *)
(*                                                                         *)
(* Cell values are tagged: text is a sequence of ASCII codes, a float is   *)
(* kept in tenths, a Timestamp in seconds since the epoch.                 *)
(***************************************************************************)
EXTENDS Integers, Sequences, FiniteSets, TLC

VARIABLES cas, casdms, route, status, loaded, locals, response, log, served

vars == <<cas, casdms, route, status, loaded, locals, response, log, served>>

---------------------------------------------------------------------------
(* Bounds of the model *)

\* longest hand-written file (rows) in the small-file scenarios
MaxLen == 1
\* rows of the generated block that both files hold
MaxOverlap == 1
\* requests served in one behaviour
MaxRequests == 2

---------------------------------------------------------------------------
(* Cell values *)

NaN == [t |-> "nan", v |-> <<>>]
NaT == [t |-> "nat", v |-> <<>>]
None == [t |-> "none", v |-> <<>>]
Str(s) == [t |-> "str", v |-> s]
Float(x) == [t |-> "float", v |-> <<x>>]
Code(x) == [t |-> "code", v |-> <<x>>]
Timestamp(secs) == [t |-> "ts", v |-> <<secs>>]

\* pd.notna / pd.isna
isna(x) == x.t \in {"nan", "nat", "none"}
notna(x) == ~isna(x)

Val(x) == x.v[1]

\* text literals, as ASCII codes
Digits(n) == IF n < 10 THEN <<48 + n>>
             ELSE IF n < 100 THEN <<48 + (n \div 10), 48 + (n % 10)>>
             ELSE <<48 + (n \div 100), 48 + ((n \div 10) % 10), 48 + (n % 10)>>

cas_ldw == <<99, 97, 115, 95, 108, 100, 119>>
cas_hmw == <<99, 97, 115, 95, 104, 109, 119>>
hard_brake == <<104, 97, 114, 100, 95, 98, 114, 97, 107, 101>>
cas_pcw == <<99, 97, 115, 95, 112, 99, 119>>
cas_fcw == <<99, 97, 115, 95, 102, 99, 119>>
\* an alert label outside the safety vocabulary ("dms")
dms == <<100, 109, 115>>
\* "2023-01-02" (a Monday), "2023-01-03", and text that is no date ("xx")
Date_Mon == <<50, 48, 50, 51, 45, 48, 49, 45, 48, 50>>
Date_Tue == <<50, 48, 50, 51, 45, 48, 49, 45, 48, 51>>
Garbage == <<120, 120>>
\* "09:05:00", "10:00:00", "9:05:00"
Time_0905 == <<48, 57, 58, 48, 53, 58, 48, 48>>
Time_1000 == <<49, 48, 58, 48, 48, 58, 48, 48>>
Time_905 == <<57, 58, 48, 53, 58, 48, 48>>

\* lexicographic order of two texts (Python's str <)
RECURSIVE LexLess(_, _)
LexLess(a, b) ==
    IF b = <<>> THEN FALSE
    ELSE IF a = <<>> THEN TRUE
    ELSE IF a[1] # b[1] THEN a[1] < b[1]
    ELSE LexLess(Tail(a), Tail(b))

---------------------------------------------------------------------------
(* pd.to_datetime on one cell *)

IsDigit(c) == c \in 48..57
Num2(s, i) == (s[i] - 48) * 10 + (s[i + 1] - 48)

IsLeap(y) == (y % 4 = 0 /\ y % 100 # 0) \/ y % 400 = 0
DaysInMonth(y, m) ==
    IF m = 2 THEN (IF IsLeap(y) THEN 29 ELSE 28)
    ELSE IF m \in {4, 6, 9, 11} THEN 30 ELSE 31

\* days since 1970-01-01 of a civil date
DaysFromCivil(y, m, d) ==
    LET yy == IF m <= 2 THEN y - 1 ELSE y
        era == yy \div 400
        yoe == yy - era * 400
        mp == (m + 9) % 12
        doy == (153 * mp + 2) \div 5 + d - 1
        doe == yoe * 365 + yoe \div 4 - yoe \div 100 + doy
    IN  era * 146097 + doe - 719468

\* "YYYY-MM-DD"
IsDateText(s) ==
    /\ Len(s) = 10
    /\ s[5] = 45 /\ s[8] = 45
    /\ \A i \in {1, 2, 3, 4, 6, 7, 9, 10} : IsDigit(s[i])
    /\ Num2(s, 6) \in 1..12
    /\ Num2(s, 9) \in 1..DaysInMonth(Num2(s, 1) * 100 + Num2(s, 3), Num2(s, 6))

\* "HH:MM:SS" or "H:MM:SS"
IsTimeText(s) ==
    LET p == IF Len(s) = 7 THEN <<48>> \o s ELSE s
    IN  /\ Len(p) = 8
        /\ p[3] = 58 /\ p[6] = 58
        /\ \A i \in {1, 2, 4, 5, 7, 8} : IsDigit(p[i])
        /\ Num2(p, 1) < 24 /\ Num2(p, 4) < 60 /\ Num2(p, 7) < 60

\* the day a bare time of day is attached to (the day the request runs)
Today == DaysFromCivil(2024, 1, 1)

Parseable(x) == x.t = "str" /\ (IsDateText(x.v) \/ IsTimeText(x.v))

ParseDatetime(x) ==
    LET s == x.v
        p == IF Len(s) = 7 THEN <<48>> \o s ELSE s
    IN  IF IsDateText(s)
        THEN Timestamp(DaysFromCivil(Num2(s, 1) * 100 + Num2(s, 3), Num2(s, 6), Num2(s, 9)) * 86400)
        ELSE Timestamp(Today * 86400 + Num2(p, 1) * 3600 + Num2(p, 4) * 60 + Num2(p, 7))

\* Series.dt.day_name(): "Monday" .. "Sunday" as 0..6 is what the name stands for
DayNames == <<Str(<<77, 111, 110>>), Str(<<84, 117, 101>>), Str(<<87, 101, 100>>),
              Str(<<84, 104, 117>>), Str(<<70, 114, 105>>), Str(<<83, 97, 116>>),
              Str(<<83, 117, 110>>)>>
day_name(x) == IF x.t = "ts" THEN DayNames[(((Val(x) \div 86400) + 3) % 7) + 1] ELSE NaN
\* Series.dt.hour
hour(x) == IF x.t = "ts" THEN Float(((Val(x) % 86400) \div 3600) * 10) ELSE NaN

---------------------------------------------------------------------------
(* Frames: a set of column labels and a sequence of rows (label -> cell) *)

Columns == {"Vehicle", "Date", "Time", "Lat", "Long", "Speed", "Alert"}

Frame(cols, rows) == [columns |-> cols, rows |-> rows]
IsError(r) == "error" \in DOMAIN r
Raise(e) == [error |-> e]

\* pd.concat([a, b], axis=0): rows of a then rows of b over the union of the
\* columns, a column a frame lacks filled with NaN
concat(a, b) ==
    LET cols == a.columns \cup b.columns
        fill(r) == [c \in cols |-> IF c \in DOMAIN r THEN r[c] ELSE NaN]
    IN  Frame(cols, [i \in 1..(Len(a.rows) + Len(b.rows)) |->
                       IF i <= Len(a.rows) THEN fill(a.rows[i])
                       ELSE fill(b.rows[i - Len(a.rows)])])

Take(rows, idx) == [k \in 1..Len(idx) |-> rows[idx[k]]]
Positions(n) == [i \in 1..n |-> i]

\* DataFrame.drop_duplicates(): keeps the first of equal rows
drop_duplicates_keep_all(f) == f
drop_duplicates(f) ==
    LET first(i) == \A j \in 1..(i - 1) : f.rows[j] # f.rows[i]
    IN  Frame(f.columns, Take(f.rows, SelectSeq(Positions(Len(f.rows)), first)))

\* DataFrame.dropna(): drops a row with a missing value in any column
dropna_keep_all(f) == f
dropna(f) ==
    LET full(r) == \A c \in f.columns : notna(r[c])
    IN  Frame(f.columns, SelectSeq(f.rows, full))

\* round(): Python rounds a half to the even neighbour
RoundHalfEven(num, den) ==
    LET q == num \div den
        r == num % den
    IN  IF 2 * r < den THEN q
        ELSE IF 2 * r > den THEN q + 1
        ELSE IF q % 2 = 0 THEN q ELSE q + 1

\* frac=0.01 as a percentage, and random_state
SamplePercent == 1
random_state == 42

\* the generator a RandomState(seed) steps through (a stand-in for MT19937:
\* what the model keeps is that the draws are a function of the seed alone)
NextRandom(s) == (75 * s + 74) % 65537

Remove(seq, j) == [k \in 1..(Len(seq) - 1) |-> IF k < j THEN seq[k] ELSE seq[k + 1]]

\* RandomState.choice(len, size=n, replace=False): n distinct positions
RECURSIVE choice(_, _, _)
choice(pool, s, n) ==
    IF n = 0 \/ pool = <<>> THEN <<>>
    ELSE LET s1 == NextRandom(s)
             j == (s1 % Len(pool)) + 1
         IN  <<pool[j]>> \o choice(Remove(pool, j), s1, n - 1)

\* DataFrame.sample(frac=..., random_state=seed): round(frac * len) rows, drawn
\* without replacement by a generator freshly seeded with seed
sample_unseeded(f, percent, seed) ==
    Frame(f.columns,
          Take(f.rows, choice(Positions(Len(f.rows)), seed + served,
                              RoundHalfEven(percent * Len(f.rows), 100))))
sample(f, percent, seed) ==
    Frame(f.columns,
          Take(f.rows, choice(Positions(Len(f.rows)), seed,
                              RoundHalfEven(percent * Len(f.rows), 100))))

\* load_data(): read both files, concat, drop_duplicates, dropna, sample
load_data ==
    sample(dropna(drop_duplicates(concat(cas, casdms))), SamplePercent, random_state)

---------------------------------------------------------------------------
(* Series and the operations the handlers apply to them *)

Series(vals) == [values |-> vals]

\* df[col]
getitem(f, col) ==
    IF col \in f.columns THEN Series([i \in 1..Len(f.rows) |-> f.rows[i][col]])
    ELSE Raise("KeyError")

\* df[col] = series
setitem(f, col, s) ==
    LET cols == f.columns \cup {col}
    IN  Frame(cols, [i \in 1..Len(f.rows) |->
                       [c \in cols |-> IF c = col THEN s.values[i] ELSE f.rows[i][c]]])

Map(s, Op(_)) ==
    IF IsError(s) THEN s ELSE Series([i \in 1..Len(s.values) |-> Op(s.values[i])])

\* pd.to_datetime(series, errors=...): text that is no date or time raises
\* unless errors='coerce', which makes it NaT
to_datetime(s, coerce) ==
    LET conv(x) == IF x.t = "ts" THEN x
                   ELSE IF Parseable(x) THEN ParseDatetime(x) ELSE NaT
    IN  IF IsError(s) THEN s
        ELSE IF ~coerce /\ \E i \in 1..Len(s.values) :
                              notna(s.values[i]) /\ s.values[i].t # "ts" /\ ~Parseable(s.values[i])
        THEN Raise("ValueError")
        ELSE Map(s, conv)

\* series.astype(float)
astype_float(s) ==
    IF IsError(s) THEN s
    ELSE IF \E i \in 1..Len(s.values) : s.values[i].t \in {"str", "ts", "nat"}
    THEN Raise("ValueError")
    ELSE Map(s, LAMBDA x : IF x.t = "code" THEN Float(Val(x) * 10) ELSE x)

dt_day_name(s) == Map(s, day_name)
dt_hour(s) == Map(s, hour)

\* the order pandas sorts a column's values in
Less(a, b) ==
    IF a.t = "str" /\ b.t = "str" THEN LexLess(a.v, b.v)
    ELSE IF isna(a) \/ isna(b) THEN ~isna(a) /\ isna(b)
    ELSE Val(a) < Val(b)

\* series.astype('category').cat.codes: the rank of each value among the
\* sorted distinct values, -1 for a missing one
cat_codes(s) ==
    IF IsError(s) THEN s
    ELSE LET present == {s.values[i] : i \in {j \in 1..Len(s.values) : notna(s.values[j])}}
             code(x) == IF isna(x) THEN Code(-1)
                        ELSE Code(Cardinality({u \in present : Less(u, x)}))
         IN  Map(s, code)

\* series.mean() skips missing values and is NaN of no values
Total(vals) ==
    LET sum[i \in 0..Len(vals)] == IF i = 0 THEN 0 ELSE sum[i - 1] + Val(vals[i])
    IN  sum[Len(vals)]
mean_dividing(s) ==
    IF IsError(s) THEN s
    ELSE IF SelectSeq(s.values, notna) = <<>> THEN Raise("ZeroDivisionError")
    ELSE Float(Total(SelectSeq(s.values, notna)) \div Len(SelectSeq(s.values, notna)))
mean(s) ==
    IF IsError(s) THEN s
    ELSE IF SelectSeq(s.values, notna) = <<>> THEN NaN
    ELSE Float(Total(SelectSeq(s.values, notna)) \div Len(SelectSeq(s.values, notna)))

\* DataFrame.sort_values(by=col): stable, missing values last
sort_values(f, col) ==
    IF col \notin f.columns THEN Raise("KeyError")
    ELSE LET n == Len(f.rows)
             key(i) == f.rows[i][col]
             before(j, i) == Less(key(j), key(i)) \/ (~Less(key(i), key(j)) /\ j < i)
             pos(i) == Cardinality({j \in 1..n : before(j, i)}) + 1
         IN  Frame(f.columns, [p \in 1..n |-> f.rows[CHOOSE i \in 1..n : pos(i) = p]])

\* df[df[col].isin(values)]
isin_filter(f, col, values) ==
    IF col \notin f.columns THEN Raise("KeyError")
    ELSE Frame(f.columns,
               SelectSeq(f.rows, LAMBDA r : r[col].t = "str" /\ r[col].v \in values))

\* the distinct values of a sequence, in the order they first appear
Distinct(vals) ==
    Take(vals, SelectSeq(Positions(Len(vals)),
                         LAMBDA i : \A j \in 1..(i - 1) : vals[j] # vals[i]))

Count(vals, x) == Cardinality({i \in 1..Len(vals) : vals[i] = x})

\* series.value_counts().reset_index() with columns renamed [label, 'Frequency']:
\* one row per distinct present value, most frequent first
value_counts(s, label) ==
    IF IsError(s) THEN s
    ELSE LET present == SelectSeq(s.values, notna)
             ks == Distinct(present)
             n == Len(ks)
             before(j, i) == Count(present, ks[j]) > Count(present, ks[i])
                             \/ (Count(present, ks[j]) = Count(present, ks[i]) /\ j < i)
             pos(i) == Cardinality({j \in 1..n : before(j, i)}) + 1
         IN  Frame({label, "Frequency"},
                   [p \in 1..n |->
                      LET i == CHOOSE k \in 1..n : pos(k) = p
                      IN  (label :> ks[i]) @@ ("Frequency" :> Float(10 * Count(present, ks[i])))])

\* f.groupby(by)[col].count().reset_index(): per value of by (sorted), the
\* number of rows whose col is present
groupby_count(f, by, col) ==
    IF IsError(f) THEN f
    ELSE IF ~({by, col} \subseteq f.columns) THEN Raise("KeyError")
    ELSE LET keyed == SelectSeq(f.rows, LAMBDA r : notna(r[by]))
             ks == Distinct([i \in 1..Len(keyed) |-> keyed[i][by]])
             n == Len(ks)
             pos(i) == Cardinality({j \in 1..n : Less(ks[j], ks[i])}) + 1
             cnt(k) == Cardinality({i \in 1..Len(keyed) : keyed[i][by] = k /\ notna(keyed[i][col])})
         IN  Frame({by, col},
                   [p \in 1..n |->
                      LET i == CHOOSE k \in 1..n : pos(k) = p
                      IN  (by :> ks[i]) @@ (col :> Float(10 * cnt(ks[i])))])

\* f.groupby([by1, by2]).size().reset_index(name='Count')
groupby_size(f, by1, by2) ==
    IF IsError(f) THEN f
    ELSE IF ~({by1, by2} \subseteq f.columns) THEN Raise("KeyError")
    ELSE LET keyed == SelectSeq(f.rows, LAMBDA r : notna(r[by1]) /\ notna(r[by2]))
             pairs == [i \in 1..Len(keyed) |-> <<keyed[i][by1], keyed[i][by2]>>]
             ks == Distinct(pairs)
             n == Len(ks)
             less(a, b) == Less(a[1], b[1]) \/ (a[1] = b[1] /\ Less(a[2], b[2]))
             pos(i) == Cardinality({j \in 1..n : less(ks[j], ks[i])}) + 1
         IN  Frame({by1, by2, "Count"},
                   [p \in 1..n |->
                      LET i == CHOOSE k \in 1..n : pos(k) = p
                      IN  (by1 :> ks[i][1]) @@ (by2 :> ks[i][2])
                          @@ ("Count" :> Float(10 * Count(pairs, ks[i])))])

\* DataFrame.describe(include='all'): per column, the count of present values
describe(f) ==
    IF f.columns = {} THEN Raise("ValueError")
    ELSE [count |-> [c \in f.columns |->
                       Cardinality({i \in 1..Len(f.rows) : notna(f.rows[i][c])})]]

\* DataFrame.corr(): the matrix is over the columns that hold numbers
IsNumeric(f, c) == \A i \in 1..Len(f.rows) : f.rows[i][c].t \in {"float", "code", "nan"}
corr(f) == [labels |-> {c \in f.columns : IsNumeric(f, c)}]

---------------------------------------------------------------------------
(* A handler's execution: its local names, the frames they refer to, the    *)
(* exception that ended it (if any), the steps it ran and what it returns   *)

LocalNames == {"df", "df1", "df_sorted", "safety_df"}
Unbound == [unbound |-> TRUE]

\* env: local name -> object (0: unbound); heap: object -> frame
Start == [env |-> [n \in LocalNames |-> 0], heap |-> <<>>, ret |-> Unbound,
          err |-> "", log |-> <<>>, out |-> <<>>]

Step(line, op, cols) == [line |-> line, op |-> op, cols |-> cols]

Deref(ctx, name) ==
    IF ctx.env[name] = 0 THEN Raise("NameError") ELSE ctx.heap[ctx.env[name]]

Fail(ctx, e, error) == [ctx EXCEPT !.err = error, !.log = Append(@, e)]

\* name = <a call that returns a new frame>
Bind(ctx, e, name, value) ==
    IF ctx.err # "" THEN ctx
    ELSE IF IsError(value) THEN Fail(ctx, e, value.error)
    ELSE [ctx EXCEPT !.heap = Append(@, value),
                     !.env[name] = Len(ctx.heap) + 1,
                     !.log = Append(@, e)]

\* df = load_data()
Load(ctx, line, name) ==
    LET d == load_data
    IN  [Bind(ctx, Step(line, "load", {}), name, d) EXCEPT !.ret = d]

\* the object df.copy() returns: a new one
copy_aliasing(ctx, src) == ctx.env[src]
copy_object(ctx, src) == Len(ctx.heap) + 1

\* dst = src.copy()
Copy(ctx, line, dst, src) ==
    IF ctx.err # "" THEN ctx
    ELSE LET id == copy_object(ctx, src)
         IN  [ctx EXCEPT !.heap = IF id > Len(ctx.heap) THEN Append(@, Deref(ctx, src)) ELSE @,
                         !.env[dst] = id,
                         !.log = Append(@, Step(line, "copy", {}))]

\* name[col] = series: changes the object name refers to
SetItem(ctx, e, name, col, series) ==
    IF ctx.err # "" THEN ctx
    ELSE IF IsError(series) THEN Fail(ctx, e, series.error)
    ELSE [ctx EXCEPT !.heap[ctx.env[name]] = setitem(@, col, series),
                     !.log = Append(@, e)]

\* name.drop([col], axis=1, inplace=True)
DropColumn(ctx, line, name, col) ==
    IF ctx.err # "" THEN ctx
    ELSE IF col \notin Deref(ctx, name).columns THEN Fail(ctx, Step(line, "drop", {col}), "KeyError")
    ELSE [ctx EXCEPT !.heap[ctx.env[name]] =
                         Frame(@.columns \ {col},
                               [i \in 1..Len(@.rows) |-> [c \in @.columns \ {col} |-> @.rows[i][c]]]),
                     !.log = Append(@, Step(line, "drop", {col}))]

\* a value computed on the way (an aggregate, the rows of the response)
Emit(ctx, e, name, value) ==
    IF ctx.err # "" THEN ctx
    ELSE IF IsError(value) THEN Fail(ctx, e, value.error)
    ELSE [ctx EXCEPT !.out = Append(@, [name |-> name, value |-> value]),
                     !.log = Append(@, e)]

\* a plotly figure of a frame: the columns it encodes must be in the frame
Chart(kind, f, cols) ==
    IF IsError(f) THEN f
    ELSE IF ~(cols \subseteq f.columns) THEN Raise("ValueError")
    ELSE [kind |-> kind, points |-> Len(f.rows)]

Plot(ctx, line, name, kind, f, cols) ==
    Emit(ctx, Step(line, "render", cols), name, Chart(kind, f, cols))

---------------------------------------------------------------------------
\* Flask calls the handler; what it returns, or the exception it ends with,
\* is the response
Serve(r, ctx) ==
    /\ served < MaxRequests
    /\ served' = served + 1
    /\ route' = r
    /\ status' = IF ctx.err = "" THEN "ok" ELSE ctx.err
    /\ loaded' = ctx.ret
    /\ locals' = [n \in LocalNames |-> IF ctx.env[n] = 0 THEN Unbound ELSE ctx.heap[ctx.env[n]]]
    /\ response' = IF ctx.err = "" THEN ctx.out ELSE <<>>
    /\ log' = ctx.log
    /\ UNCHANGED <<cas, casdms>>

---------------------------------------------------------------------------
(* The route handlers, statement by statement *)

\* /spatial-analysis
spatial_analysis ==
    \E c1 \in {Load(Start, 27, "df")} :
    \E c2 \in {Plot(c1, 29, "fig", "density_mapbox", Deref(c1, "df"), {"Lat", "Long"})} :
    \E c3 \in {Emit(c2, Step(32, "aggregate", {"Lat"}), "center_lat",
                   mean(getitem(Deref(c2, "df"), "Lat")))} :
    \E c4 \in {Emit(c3, Step(32, "aggregate", {"Long"}), "center_lon",
                   mean(getitem(Deref(c3, "df"), "Long")))} :
        Serve("/spatial-analysis", c4)

\* /alert-frequency
alert_frequency ==
    \E c1 \in {Load(Start, 39, "df")} :
    \E c2 \in {SetItem(c1, Step(40, "normalize", {"Date"}), "df", "Date",
                      to_datetime(getitem(Deref(c1, "df"), "Date"), FALSE))} :
    \E c3 \in {SetItem(c2, Step(41, "normalize", {"DayOfWeek"}), "df", "DayOfWeek",
                      dt_day_name(getitem(Deref(c2, "df"), "Date")))} :
    \E c4 \in {SetItem(c3, Step(42, "normalize", {"Time"}), "df", "Time",
                      to_datetime(getitem(Deref(c3, "df"), "Time"), TRUE))} :
    \E c5 \in {SetItem(c4, Step(43, "normalize", {"Speed"}), "df", "Speed",
                      astype_float(getitem(Deref(c4, "df"), "Speed")))} :
    \E c6 \in {Plot(c5, 46, "day_of_week_chart", "histogram", Deref(c5, "df"),
                   {"DayOfWeek", "Alert"})} :
    \E c7 \in {Plot(c6, 51, "speed_alert_chart", "scatter", Deref(c6, "df"),
                   {"Speed", "Alert"})} :
    \E c8 \in {Plot(c7, 56, "speed_time", "scatter", Deref(c7, "df"),
                   {"Time", "Speed", "Alert"})} :
        Serve("/alert-frequency", c8)

\* categorize_speed(speed), speed in tenths; every comparison with NaN is false
categorize_speed_upper_inclusive(speed) ==
    IF speed.t = "float" /\ Val(speed) <= 600 THEN Str(<<76, 111, 119>>)
    ELSE IF speed.t = "float" /\ 600 < Val(speed) /\ Val(speed) <= 800
    THEN Str(<<77, 101, 100, 105, 117, 109>>)
    ELSE Str(<<72, 105, 103, 104>>)
categorize_speed(speed) ==
    IF speed.t = "float" /\ Val(speed) < 600 THEN Str(<<76, 111, 119>>)
    ELSE IF speed.t = "float" /\ 600 <= Val(speed) /\ Val(speed) < 800
    THEN Str(<<77, 101, 100, 105, 117, 109>>)
    ELSE Str(<<72, 105, 103, 104>>)

\* /speed-analysis
speed_analysis ==
    \E c1 \in {Load(Start, 69, "df")} :
    \E c2 \in {SetItem(c1, Step(70, "normalize", {"Speed"}), "df", "Speed",
                      astype_float(getitem(Deref(c1, "df"), "Speed")))} :
    \E c3 \in {Bind(c2, Step(71, "sort", {"Time"}), "df_sorted",
                   sort_values(Deref(c2, "df"), "Time"))} :
    \E c4 \in {SetItem(c3, Step(72, "normalize", {"Time"}), "df_sorted", "Time",
                      to_datetime(getitem(Deref(c3, "df_sorted"), "Time"), TRUE))} :
    \E c5 \in {SetItem(c4, Step(83, "normalize", {"Speed_Category"}), "df_sorted",
                      "Speed_Category",
                      Map(getitem(Deref(c4, "df_sorted"), "Speed"), categorize_speed))} :
    \E c6 \in {Plot(c5, 86, "speed_time_chart", "scatter", Deref(c5, "df_sorted"),
                   {"Time", "Speed", "Alert"})} :
    \E c7 \in {Plot(c6, 90, "speed_distribution_chart", "histogram",
                   Deref(c6, "df_sorted"), {"Speed"})} :
    \E c8 \in {Emit(c7, Step(94, "aggregate", {"Speed_Category", "Alert"}), "grouped_data",
                   groupby_size(Deref(c7, "df_sorted"), "Speed_Category", "Alert"))} :
    \E c9 \in {Plot(c8, 95, "speed_category_chart", "bar",
                   groupby_size(Deref(c8, "df_sorted"), "Speed_Category", "Alert"),
                   {"Speed_Category", "Count", "Alert"})} :
        Serve("/speed-analysis", c9)

\* /correlation-analysis
correlation_analysis ==
    \E c1 \in {Load(Start, 107, "df")} :
    \E c2 \in {Copy(c1, 108, "df1", "df")} :
    \E c3 \in {SetItem(c2, Step(111, "normalize", {"Alert"}), "df1", "Alert",
                      cat_codes(getitem(Deref(c2, "df1"), "Alert")))} :
    \E c4 \in {SetItem(c3, Step(112, "normalize", {"Date"}), "df1", "Date",
                      to_datetime(getitem(Deref(c3, "df1"), "Date"), FALSE))} :
    \E c5 \in {SetItem(c4, Step(113, "normalize", {"DayOfWeek"}), "df1", "DayOfWeek",
                      dt_day_name(getitem(Deref(c4, "df1"), "Date")))} :
    \E c6 \in {SetItem(c5, Step(114, "normalize", {"HourOfDay"}), "df1", "HourOfDay",
                      dt_hour(getitem(Deref(c5, "df1"), "Date")))} :
    \E c7 \in {SetItem(c6, Step(115, "normalize", {"Date"}), "df1", "Date",
                      cat_codes(getitem(Deref(c6, "df1"), "Date")))} :
    \E c8 \in {SetItem(c7, Step(116, "normalize", {"Time"}), "df1", "Time",
                      to_datetime(getitem(Deref(c7, "df1"), "Time"), TRUE))} :
    \E c9 \in {SetItem(c8, Step(117, "normalize", {"DayOfWeek"}), "df1", "DayOfWeek",
                      cat_codes(getitem(Deref(c8, "df1"), "DayOfWeek")))} :
    \E c10 \in {SetItem(c9, Step(118, "normalize", {"HourOfDay"}), "df1", "HourOfDay",
                       cat_codes(getitem(Deref(c9, "df1"), "HourOfDay")))} :
    \E c11 \in {DropColumn(c10, 119, "df1", "HourOfDay")} :
    \E c12 \in {Emit(c11, Step(122, "aggregate", Deref(c11, "df1").columns),
                    "correlation_matrix", corr(Deref(c11, "df1")))} :
    \E c13 \in {Emit(c12, Step(125, "render", corr(Deref(c12, "df1")).labels), "fig",
                    [kind |-> "annotated_heatmap", labels |-> corr(Deref(c12, "df1")).labels])} :
        Serve("/correlation-analysis", c13)

\* /driver-behavior
driver_behavior ==
    \E c1 \in {Load(Start, 138, "df")} :
    \E c2 \in {Emit(c1, Step(139, "aggregate", {"Alert"}), "alert_counts",
                   value_counts(getitem(Deref(c1, "df"), "Alert"), "Alert"))} :
    \E c3 \in {Plot(c2, 143, "fig", "pie",
                   value_counts(getitem(Deref(c2, "df"), "Alert"), "Alert"),
                   {"Frequency", "Alert"})} :
        Serve("/driver-behavior", c3)

\* the safety vocabulary, as /safety-impact and as /safety_analysis spell it
safety_alerts_short == {cas_ldw, cas_hmw, hard_brake, cas_pcw}
safety_impact_alerts == {cas_ldw, cas_hmw, hard_brake, cas_pcw, cas_fcw}
safety_alerts == {cas_ldw, cas_hmw, hard_brake, cas_pcw, cas_fcw}

\* /safety-impact
safety_impact ==
    \E c1 \in {Load(Start, 151, "df")} :
    \E c2 \in {Bind(c1, Step(152, "filter", {"Alert"}), "safety_df",
                   isin_filter(Deref(c1, "df"), "Alert", safety_impact_alerts))} :
    \E c3 \in {Emit(c2, Step(155, "aggregate", {"Speed", "Alert"}), "speed_frequency",
                   groupby_count(Deref(c2, "safety_df"), "Speed", "Alert"))} :
    \E c4 \in {Plot(c3, 155, "safety_speed_frequency", "scatter",
                   groupby_count(Deref(c3, "safety_df"), "Speed", "Alert"),
                   {"Speed", "Alert"})} :
    \E c5 \in {Plot(c4, 160, "safety_speed_distribution", "box", Deref(c4, "safety_df"),
                   {"Alert", "Speed"})} :
        Serve("/safety-impact", c5)

\* /safety_analysis
safety_analysis ==
    \E c1 \in {Load(Start, 171, "df")} :
    \E c2 \in {Bind(c1, Step(175, "filter", {"Alert"}), "safety_df",
                   isin_filter(Deref(c1, "df"), "Alert", safety_alerts))} :
    \E c3 \in {Emit(c2, Step(178, "aggregate", {"Alert"}), "safety_counts",
                   value_counts(getitem(Deref(c2, "safety_df"), "Alert"), "Alert"))} :
    \E c4 \in {Plot(c3, 182, "safety_pie", "pie",
                   value_counts(getitem(Deref(c3, "safety_df"), "Alert"), "Alert"),
                   {"Frequency", "Alert"})} :
    \E c5 \in {Emit(c4, Step(187, "aggregate", {"Speed", "Alert"}), "safety_speed_freq",
                   groupby_count(Deref(c4, "safety_df"), "Speed", "Alert"))} :
    \E c6 \in {Plot(c5, 188, "safety_speed", "scatter_ols",
                   groupby_count(Deref(c5, "safety_df"), "Speed", "Alert"),
                   {"Speed", "Alert"})} :
        Serve("/safety_analysis", c6)

\* the dict / and /data/coordinates build of one row (row[label] of a label
\* the row lacks raises KeyError)
location(row) ==
    [lat |-> row["Lat"], lng |-> row["Long"], alert |-> row["Alert"],
     date |-> row["Date"], time |-> row["Time"], vehicle |-> row["Vehicle"],
     speed |-> row["Speed"]]

record(row) ==
    [alert |-> IF notna(row["Alert"]) THEN row["Alert"] ELSE Str(<<>>),
     date |-> IF notna(row["Date"]) THEN row["Date"] ELSE Str(<<>>),
     time |-> IF notna(row["Time"]) THEN row["Time"] ELSE Str(<<>>),
     lat |-> IF notna(row["Lat"]) THEN row["Lat"] ELSE None,
     long |-> IF notna(row["Long"]) THEN row["Long"] ELSE None,
     vehicle |-> IF notna(row["Vehicle"]) THEN row["Vehicle"] ELSE Str(<<>>),
     speed |-> IF notna(row["Speed"]) THEN row["Speed"] ELSE Float(0)]

\* [f(row) for _, row in df.iterrows()]
iterrows(f, Op(_)) ==
    IF IsError(f) THEN f
    ELSE IF f.rows # <<>> /\ ~(Columns \subseteq f.columns) THEN Raise("KeyError")
    ELSE [items |-> [i \in 1..Len(f.rows) |-> Op(f.rows[i])]]

\* /
home ==
    \E c1 \in {Load(Start, 201, "df")} :
    \E c2 \in {Emit(c1, Step(202, "aggregate", Deref(c1, "df").columns), "summary",
                   describe(Deref(c1, "df")))} :
    \E c3 \in {Plot(c2, 205, "heatmap", "density_mapbox", Deref(c2, "df"), {"Lat", "Long"})} :
    \E c4 \in {Emit(c3, Step(207, "aggregate", {"Lat"}), "center_lat",
                   mean(getitem(Deref(c3, "df"), "Lat")))} :
    \E c5 \in {Emit(c4, Step(207, "aggregate", {"Long"}), "center_lon",
                   mean(getitem(Deref(c4, "df"), "Long")))} :
    \E c6 \in {SetItem(c5, Step(211, "normalize", {"Date"}), "df", "Date",
                      to_datetime(getitem(Deref(c5, "df"), "Date"), FALSE))} :
    \E c7 \in {SetItem(c6, Step(212, "normalize", {"DayOfWeek"}), "df", "DayOfWeek",
                      dt_day_name(getitem(Deref(c6, "df"), "Date")))} :
    \E c8 \in {Emit(c7, Step(213, "aggregate", {"DayOfWeek"}), "freq_data",
                   value_counts(getitem(Deref(c7, "df"), "DayOfWeek"), "Day"))} :
    \E c9 \in {Plot(c8, 215, "alert_frequency", "bar",
                   value_counts(getitem(Deref(c8, "df"), "DayOfWeek"), "Day"),
                   {"Day", "Frequency"})} :
    \E c10 \in {Plot(c9, 220, "speed_analysis", "histogram", Deref(c9, "df"), {"Speed"})} :
    \E c11 \in {Emit(c10, Step(224, "emit", Columns), "locations",
                    iterrows(Deref(c10, "df"), location))} :
        Serve("/", c11)

\* /data/coordinates
get_coordinates ==
    \E c1 \in {Load(Start, 243, "df")} :
    \E c2 \in {Emit(c1, Step(245, "emit", Columns), "data",
                   iterrows(Deref(c1, "df"), record))} :
        Serve("/data/coordinates", c2)

---------------------------------------------------------------------------
(* The input files *)

Row(vehicle, date, time, lat, long, speed, alert) ==
    [Vehicle |-> vehicle, Date |-> date, Time |-> time, Lat |-> lat, Long |-> long,
     Speed |-> speed, Alert |-> alert]

Vehicle(i) == Str(<<86>> \o Digits(i))

\* the kinds of record the files are made of: the four speeds at the band
\* edges, every safety alert and one other, a time and a date that do not parse
Templates == <<
    Row(NaN, Str(Date_Mon), Str(Time_0905), Float(129), Float(775), Float(599), Str(cas_ldw)),
    Row(NaN, Str(Date_Tue), Str(Time_1000), Float(130), Float(776), Float(600), Str(cas_hmw)),
    Row(NaN, Str(Date_Mon), Str(Time_905), Float(131), Float(777), Float(799), Str(hard_brake)),
    Row(NaN, Str(Date_Tue), Str(Garbage), Float(132), Float(778), Float(800), Str(dms)),
    Row(NaN, Str(Garbage), Str(Time_1000), Float(133), Float(779), Float(600), Str(cas_fcw)),
    Row(NaN, Str(Date_Mon), Str(Time_0905), Float(134), Float(780), Float(800), Str(cas_pcw)) >>

Record(k, vehicle) == [Templates[k] EXCEPT !.Vehicle = vehicle]

\* records written by hand: complete ones (the second with a date that does
\* not parse) and ones with fields missing
Complete1 == Record(1, Vehicle(0))
Complete5 == Record(5, Vehicle(0))
NoLong == [Record(1, Vehicle(0)) EXCEPT !.Long = NaN]
NoSpeed == [Record(2, Vehicle(0)) EXCEPT !.Speed = NaN]
NoLatAlert == [Record(4, Vehicle(0)) EXCEPT !.Lat = NaN, !.Alert = NaN]
Pool == {Complete1, Complete5, NoLong, NoSpeed, NoLatAlert}

SeqsUpTo(S, n) == UNION {[1..k -> S] : k \in 0..n}

\* the column sets of the two files: the shared schema, disjoint schemas, an
\* expected column absent from both, and one absent from the second
Shared == <<Columns, Columns>>
NoAlert == <<Columns \ {"Alert"}, Columns \ {"Alert"}>>
Mismatched == {<<{"Vehicle", "Date", "Time"}, {"Lat", "Long", "Speed", "Alert"}>>,
               NoAlert,
               <<Columns, Columns \ {"Speed"}>>}

\* a file with the given columns holding the given records
File(cols, rows) ==
    Frame(cols, [i \in 1..Len(rows) |-> [c \in cols |-> rows[i][c]]])

\* a generated block of n records: each of its own vehicle and of the
\* template kinds in turn, or (repeat) the same record n times
TemplateCount == Len(Templates)
Block(n, shift, repeat) ==
    [i \in 1..n |-> IF repeat THEN Record(shift + 1, Vehicle(0))
                    ELSE Record(((i - 1 + shift) % TemplateCount) + 1, Vehicle(i))]

SubSeqOrEmpty(s, a, b) == IF a > b THEN <<>> ELSE SubSeq(s, a, b)

\* the block split over the two files, ov of its records in both, each file
\* starting with hand-written records
Split(sch, p, n, shift, repeat, ov) ==
    <<File(sch[1], p[1] \o SubSeqOrEmpty(Block(n, shift, repeat), 1, n \div 2)),
      File(sch[2], p[2] \o SubSeqOrEmpty(Block(n, shift, repeat), (n \div 2) + 1 - ov, n))>>

\* files too small for the 1% sample to hold a row
SmallFiles(schemas) ==
    {<<File(sch[1], a), File(sch[2], b)>> :
        sch \in schemas, a \in SeqsUpTo(Pool, MaxLen), b \in SeqsUpTo(Pool, MaxLen)}

Heads == {<< <<>>, <<>> >>,
          << <<Complete1>>, <<>> >>,
          << <<Complete1>>, <<Complete1>> >>,
          << <<Complete1>>, <<Complete5>> >>,
          << <<Complete5>>, <<Complete1>> >>,
          << <<NoLong>>, <<Complete1>> >>,
          << <<Complete1>>, <<NoSpeed>> >>,
          << <<NoLatAlert>>, <<>> >>}

\* 50 to 52 complete distinct rows: the sample holds none or one
MediumFiles ==
    {Split(Shared, p, 50, g[1], g[2], ov) :
        p \in Heads, ov \in 0..MaxOverlap,
        g \in ((0..(TemplateCount - 1)) \X {FALSE}) \cup {<<0, TRUE>>}}

\* 150 to 152: the sample holds two
LargeFiles ==
    {Split(Shared, p, 150, g[1], g[2], ov) :
        p \in {<< <<>>, <<>> >>, << <<Complete1>>, <<Complete5>> >>,
               << <<NoLong>>, <<Complete1>> >>},
        ov \in 0..MaxOverlap,
        g \in {<<0, FALSE>>, <<4, FALSE>>, <<5, FALSE>>, <<0, TRUE>>}}

\* files whose column sets differ from the shared schema
MismatchedFiles ==
    SmallFiles(Mismatched)
    \cup {Split(sch, << <<Complete1>>, <<>> >>, 50, g, FALSE, 0) :
             sch \in Mismatched, g \in 0..(TemplateCount - 1)}

---------------------------------------------------------------------------
(* The state machine *)

Idle ==
    /\ route = "" /\ status = "idle"
    /\ loaded = Unbound
    /\ locals = [n \in LocalNames |-> Unbound]
    /\ response = <<>>
    /\ log = <<>>
    /\ served = 0

\* the two files hold the shared schema
Init ==
    /\ \E files \in SmallFiles({Shared}) \cup MediumFiles \cup LargeFiles :
          cas = files[1] /\ casdms = files[2]
    /\ Idle

\* the two files' column sets do not overlap, or lack an expected column
InitMismatched ==
    /\ \E files \in MismatchedFiles : cas = files[1] /\ casdms = files[2]
    /\ Idle

Next ==
    \/ spatial_analysis
    \/ alert_frequency
    \/ speed_analysis
    \/ correlation_analysis
    \/ driver_behavior
    \/ safety_impact
    \/ safety_analysis
    \/ home
    \/ get_coordinates

Spec == Init /\ [][Next]_vars

SpecMismatched == InitMismatched /\ [][Next]_vars

---------------------------------------------------------------------------
(* What the claims speak of *)

Answered == status # "idle"
Rows(f) == {f.rows[i] : i \in 1..Len(f.rows)}

\* the union of the two inputs
Source == concat(cas, casdms)

HasMissing(r) == \E c \in DOMAIN r : isna(r[c])

SafetyVocabulary == {cas_ldw, cas_hmw, hard_brake, cas_pcw, cas_fcw}
IsSafety(r) == r["Alert"].t = "str" /\ r["Alert"].v \in SafetyVocabulary

Low == Str(<<76, 111, 119>>)
Medium == Str(<<77, 101, 100, 105, 117, 109>>)
High == Str(<<72, 105, 103, 104>>)

Item(name) == (CHOOSE x \in Rows([rows |-> response]) : x.name = name).value

\* C1: the dataset load_data returns holds no two identical rows and no
\* missing value, and each of its rows is a row of the union of the inputs
C1_LoadedIsCleanSubset ==
    Answered =>
        /\ \A i, j \in 1..Len(loaded.rows) : i # j => loaded.rows[i] # loaded.rows[j]
        /\ \A i \in 1..Len(loaded.rows) : ~HasMissing(loaded.rows[i])
        /\ Rows(loaded) \subseteq Rows(Source)

\* a sample of two rows of inputs that held duplicates and missing values
C1_Witness ==
    /\ Answered
    /\ Len(loaded.rows) = 2
    /\ \E r \in Rows(Source) : HasMissing(r)
    /\ \E i, j \in 1..Len(Source.rows) : i # j /\ Source.rows[i] = Source.rows[j]

C3_SpeedBands ==
    (route = "/speed-analysis" /\ status = "ok") =>
        \A r \in Rows(locals["df_sorted"]) :
            /\ Val(r["Speed"]) < 600 => r["Speed_Category"] = Low
            /\ (600 <= Val(r["Speed"]) /\ Val(r["Speed"]) < 800) => r["Speed_Category"] = Medium
            /\ Val(r["Speed"]) >= 800 => r["Speed_Category"] = High
            /\ r["Speed_Category"] \in {Low, Medium, High}

\* 59.9 and 60.0 in one response, categorized Low and Medium
C3_Witness ==
    /\ route = "/speed-analysis" /\ status = "ok"
    /\ \E r \in Rows(locals["df_sorted"]) : r["Speed"] = Float(599) /\ r["Speed_Category"] = Low
    /\ \E r \in Rows(locals["df_sorted"]) : r["Speed"] = Float(600) /\ r["Speed_Category"] = Medium

\* C4: in both safety routes the safety subset is exactly the loaded records
\* whose Alert is one of the five safety alerts, and both routes use that set
C4_SafetySubset ==
    /\ safety_impact_alerts = SafetyVocabulary
    /\ safety_alerts = SafetyVocabulary
    /\ (route \in {"/safety-impact", "/safety_analysis"} /\ Answered) =>
          /\ Rows(locals["safety_df"]) \subseteq Rows(loaded)
          /\ \A r \in Rows(locals["safety_df"]) : IsSafety(r)
          /\ \A r \in Rows(loaded) : IsSafety(r) => r \in Rows(locals["safety_df"])

\* a loaded dataset of a safety alert and another alert: the subset is one row
C4_Witness ==
    /\ route = "/safety-impact" /\ status = "ok"
    /\ Len(loaded.rows) = 2
    /\ Len(locals["safety_df"].rows) = 1

Data == Item("data").items

\* C5, as claimed: /data/coordinates never fails and every record of the
\* source data is in the response, its missing fields replaced by the defaults
\* (stated of the requests whose loaded dataset is not empty)
C5_EverySourceRecordAppears ==
    (route = "/data/coordinates" /\ Answered /\ Len(loaded.rows) >= 1) =>
        /\ status = "ok"
        /\ \A r \in Rows(Source) : \E i \in 1..Len(Data) : Data[i] = record(r)

\* C5, amended: /data/coordinates answers with one object per record of the
\* dataset load_data returned, in order and with the fields as loaded; a
\* source record with a missing field is not in the response, though record()
\* would give it long: null, lat: null, speed: 0 and '' for missing text
C5_OneObjectPerLoadedRecord ==
    (route = "/data/coordinates" /\ Answered) =>
        /\ status = "ok"
        /\ Len(Data) = Len(loaded.rows)
        /\ \A i \in 1..Len(Data) :
              /\ Data[i] = record(loaded.rows[i])
              /\ Data[i].long = loaded.rows[i]["Long"] /\ Data[i].lat = loaded.rows[i]["Lat"]
              /\ Data[i].speed = loaded.rows[i]["Speed"] /\ Data[i].alert = loaded.rows[i]["Alert"]
              /\ Data[i].date = loaded.rows[i]["Date"] /\ Data[i].time = loaded.rows[i]["Time"]
              /\ Data[i].vehicle = loaded.rows[i]["Vehicle"]
        /\ \A r \in Rows(Source) :
              /\ HasMissing(r) => \A i \in 1..Len(Data) : Data[i] # record(r)
              /\ isna(r["Long"]) => record(r).long = None
              /\ isna(r["Lat"]) => record(r).lat = None
              /\ isna(r["Speed"]) => record(r).speed = Float(0)
              /\ isna(r["Alert"]) => record(r).alert = Str(<<>>)

\* a response that is not empty, of files that hold a record without Long
C5_Witness ==
    /\ route = "/data/coordinates" /\ status = "ok"
    /\ Len(Data) >= 1
    /\ \E r \in Rows(Source) : isna(r["Long"])

\* C6: files (each holding records) whose column sets do not overlap, or that
\* lack an expected column, make the loader fail with FormatError; no dataset
\* reaches a handler
C6_MismatchIsFormatError ==
    (/\ Answered
     /\ cas.rows # <<>> /\ casdms.rows # <<>>
     /\ \/ cas.columns \cap casdms.columns = {}
        \/ ~(Columns \subseteq cas.columns)
        \/ ~(Columns \subseteq casdms.columns))
    => (status = "FormatError" /\ loaded = Unbound)

NormalizingRoutes == {"/alert-frequency", "/speed-analysis", "/correlation-analysis", "/"}
Unparseable(x) == x.t = "str" /\ ~Parseable(x)

\* C7: in the routes that normalize fields, a record whose Date or Time does
\* not parse gets a null there and the request still completes
C7_UnparseableBecomesNull ==
    (/\ route \in NormalizingRoutes /\ Answered
     /\ \E r \in Rows(loaded) : Unparseable(r["Date"]) \/ Unparseable(r["Time"]))
    => /\ status = "ok"
       /\ route = "/alert-frequency" =>
             \A i \in 1..Len(loaded.rows) :
                /\ Unparseable(loaded.rows[i]["Date"]) => isna(locals["df"].rows[i]["Date"])
                /\ Unparseable(loaded.rows[i]["Time"]) => isna(locals["df"].rows[i]["Time"])

SafetyRoutes == {"/safety-impact", "/safety_analysis"}
ChartsEmpty ==
    \A i \in 1..Len(response) :
        "points" \in DOMAIN response[i].value => response[i].value.points = 0

\* C8: a request whose loaded dataset is empty, or whose safety subset is
\* empty, completes with a response whose charts are empty
C8_EmptyInputCompletes ==
    Answered =>
        /\ Len(loaded.rows) = 0 => (status = "ok" /\ ChartsEmpty)
        /\ (route \in SafetyRoutes /\ \A r \in Rows(loaded) : ~IsSafety(r))
              => (status = "ok" /\ ChartsEmpty)

\* the landing page of 50 clean rows, of which the 1% sample holds none
C8_Witness ==
    /\ route = "/" /\ status = "ok"
    /\ Len(dropna(drop_duplicates(Source)).rows) = 50
    /\ Len(loaded.rows) = 0

\* a safety route of a dataset that is not empty and holds no safety alert
C8_WitnessSafety ==
    /\ route = "/safety_analysis" /\ status = "ok"
    /\ Len(loaded.rows) >= 1
    /\ Len(locals["safety_df"].rows) = 0

\* C9, as claimed: no handler changes the frame load_data returned to it, and
\* what / emits of a row are the fields as loaded (stated of the requests
\* whose loaded dataset is not empty)
C9_LoadedNeverMutated ==
    (Answered /\ Len(loaded.rows) >= 1) =>
        /\ locals["df"] = loaded
        /\ (route = "/" /\ status = "ok") =>
              \A i \in 1..Len(loaded.rows) :
                  Item("locations").items[i].date = loaded.rows[i]["Date"]

\* the columns a handler assigns on the frame load_data returned to it
Assigned(r) ==
    CASE r = "/alert-frequency" -> {"Date", "DayOfWeek", "Time", "Speed"}
      [] r = "/speed-analysis" -> {"Speed"}
      [] r = "/" -> {"Date", "DayOfWeek"}
      [] OTHER -> {}

\* C9, amended: every request is handed a fresh load of the files; the
\* handlers /alert-frequency, /speed-analysis and / assign normalized columns
\* on that frame in place (and / emits the normalized Date), leaving its other
\* columns and its rows as loaded; every other handler, /correlation-analysis
\* by working on a copy, leaves the loaded frame unchanged
C9_OnlyAssignedColumnsChange ==
    Answered =>
        /\ loaded = load_data
        /\ Assigned(route) = {} => locals["df"] = loaded
        /\ Len(locals["df"].rows) = Len(loaded.rows)
        /\ locals["df"].columns \subseteq loaded.columns \cup Assigned(route)
        /\ \A i \in 1..Len(loaded.rows) : \A c \in loaded.columns \ Assigned(route) :
              locals["df"].rows[i][c] = loaded.rows[i][c]
        /\ (route \in {"/alert-frequency", "/"} /\ status = "ok") =>
              /\ "DayOfWeek" \in locals["df"].columns
              /\ \A i \in 1..Len(loaded.rows) : locals["df"].rows[i]["Date"].t = "ts"
        /\ (route = "/" /\ status = "ok") =>
              \A i \in 1..Len(loaded.rows) :
                  Item("locations").items[i].date = ParseDatetime(loaded.rows[i]["Date"])

\* /correlation-analysis has re-encoded its copy of a dataset that is not empty
C9_Witness ==
    /\ route = "/correlation-analysis" /\ status = "ok"
    /\ Len(loaded.rows) >= 1
    /\ locals["df1"] # locals["df"]
    /\ locals["df"] = loaded

\* C10: load_data is called once and first; no field is sorted, grouped or
\* aggregated before it is normalized; no chart is rendered before the
\* normalization of the request's dataset is complete (stated of the requests
\* whose loaded dataset holds two rows)
C10_LoadNormalizeAggregateRender ==
    (Answered /\ Len(loaded.rows) = 2) =>
        /\ Len(log) >= 1 /\ log[1].op = "load"
        /\ \A i \in 2..Len(log) : log[i].op # "load"
        /\ \A i, j \in 1..Len(log) :
              (/\ log[i].op \in {"sort", "aggregate"}
               /\ log[j].op = "normalize"
               /\ log[i].cols \cap log[j].cols # {}) => j < i
        /\ \A i, j \in 1..Len(log) :
              (log[i].op = "render" /\ log[j].op = "normalize") => j < i

\* what sorting before parsing does: /speed-analysis has put "10:00:00" before
\* "9:05:00", so the parsed times of df_sorted are not in ascending order
C10_SortedAsTextNotAsTime ==
    /\ route = "/speed-analysis" /\ status = "ok"
    /\ Len(locals["df_sorted"].rows) = 2
    /\ locals["df_sorted"].rows[1]["Time"].t = "ts"
    /\ locals["df_sorted"].rows[2]["Time"].t = "ts"
    /\ Val(locals["df_sorted"].rows[2]["Time"]) < Val(locals["df_sorted"].rows[1]["Time"])

=============================================================================
